---- MODULE Spec2Model ----
(***************************************************************************)
(* Model of normcap's screenshot acquisition over the xdg desktop portal   *)
(* (normcap/screengrab/dbus_portal.py) and of the version comparison of    *)
(* the update check (normcap/gui/update_check.py).                         *)
(*                                                                         *)
(* Strings that the code takes apart (version strings) are sequences of    *)
(* character codes, so that splitting, padding and the lexicographic       *)
(* comparison of Python are computed and not assumed.                      *)
(***************************************************************************)
EXTENDS Integers, Sequences, FiniteSets, TLC

VARIABLES
    \* ---- capture() ----
    pc,             \* position of capture(): start, loop1, focus, loop2, returned, raised
    flatpak,        \* os.getenv("FLATPAK_ID") is set
    captureResult,  \* the list capture() returns (images, by the path they were loaded from)
    raisedError,    \* the exception capture() propagates to its caller, or "none"
    windowVisible,  \* PermissionWindow is shown
    windowActive,   \* PermissionWindow.isActiveWindow()
    \* ---- one OrgFreedesktopPortalScreenshot per phase ----
    created,        \* the portal object of the phase has been constructed
    interactive,    \* self.interactive
    timer,          \* self.timeout_timer: "inactive" or "active"
    grabbed,        \* grab_full_desktop has run
    token,          \* token generated by grab_full_desktop, or "none"
    listening,      \* object path the Response listener is connected on, <<>> if none
    sent,           \* sequence of Screenshot calls sent on the bus by this portal
    ack,            \* reply to the Screenshot call: "none", "valid", "invalid"
    emitted,        \* sequence of emissions on on_result / on_exception
    slotFailed,     \* got_signal raised (IndexError while scraping the uri)
    delivered,      \* the Response messages got_signal was called with, in order, each
                    \* with the request it answers and where capture() was (history)
    \* ---- closures of _synchronized_capture, per phase ----
    connected,      \* _signal_triggered / _exception_triggered are connected
    result,         \* the list `result`
    exceptions,     \* the list `exceptions`
    loopExit,       \* loop.exit() has been called
    \* ---- the portal service and the bus ----
    responded,      \* the portal has emitted the Response of the request of this phase
    bus,            \* Response signals emitted and not yet delivered
    \* ---- UpdateChecker._is_new_version ----
    current,        \* the installed version (__version__)
    other,          \* the version found in the feed
    isNew,          \* result of _is_new_version(current, other), or "none"
    vpc,            \* "input" before the comparison, "done" after
    \* ---- UpdateChecker._parse_version ----
    packaged,       \* self.packaged
    data,           \* the downloaded text, as the sequence of its version entries
    newest,         \* newest_version, <<>> for None
    events,         \* the signals emitted and the dialogs shown, in order
    choice,         \* what message_box.exec_() returned, 0 before
    upc             \* "idle", "download" (data delivered), "dialog" (in exec_()), "done"

captureVars == <<pc, flatpak, captureResult, raisedError, windowVisible, windowActive>>
portalVars == <<created, interactive, timer, grabbed, token, listening, sent, ack,
                emitted, slotFailed, delivered>>
closureVars == <<connected, result, exceptions, loopExit>>
busVars == <<responded, bus>>
updateVars == <<packaged, data, newest, events, choice, upc>>
versionVars == <<current, other, isNew, vpc, updateVars>>
vars == <<captureVars, portalVars, closureVars, busVars, versionVars>>

-----------------------------------------------------------------------------
(* Bounds *)

MaxMajor == 1
MaxFeed == 2
MaxMinor == 10
MaxPatch == 1
MaxSuffixNum == 2
MaxCode == 1
NumScreens == 2

-----------------------------------------------------------------------------
(* Character codes *)

ChDash == 45
ChDot == 46
Ch0 == 48

\* "alpha" and "beta" as character codes
WordAlpha == <<97, 108, 112, 104, 97>>
WordBeta == <<98, 101, 116, 97>>

IsDigit(c) == c >= 48 /\ c <= 57

RECURSIVE Digits(_)
\* str(n) for a natural number n
Digits(n) == IF n < 10 THEN <<Ch0 + n>> ELSE Digits(n \div 10) \o <<Ch0 + (n % 10)>>

-----------------------------------------------------------------------------
(* UpdateChecker._is_new_version *)

ZFILL_WIDTH == 8
ButtonOk == 1024
ButtonCancel == 4194304

RECURSIVE SplitFrom(_, _, _)
\* re.split(r"\.|\-", s): cut s at every "." and every "-"
SplitFrom(s, i, acc) ==
    IF i > Len(s) THEN <<acc>>
    ELSE IF s[i] = ChDot \/ s[i] = ChDash
         THEN <<acc>> \o SplitFrom(s, i + 1, <<>>)
         ELSE SplitFrom(s, i + 1, Append(acc, s[i]))

ReSplit(s) == SplitFrom(s, 1, <<>>)

RECURSIVE Zeros(_)
Zeros(n) == IF n <= 0 THEN <<>> ELSE <<Ch0>> \o Zeros(n - 1)

\* a comparison that forgets the padding
ZFillForgotten(c, width) == c

\* str.zfill(width): pad with "0" on the left up to width; longer strings are
\* unchanged (no component starts with a sign: "-" is a separator)
ZFill(c, width) == Zeros(width - Len(c)) \o c

VersionTuple(s) == [i \in 1..Len(ReSplit(s)) |-> ZFill(ReSplit(s)[i], ZFILL_WIDTH)]

RECURSIVE StrLess(_, _)
\* Python's a < b on strings: by code point, a proper prefix is smaller
StrLess(a, b) ==
    IF a = <<>> THEN b # <<>>
    ELSE IF b = <<>> THEN FALSE
    ELSE IF a[1] # b[1] THEN a[1] < b[1]
    ELSE StrLess(Tail(a), Tail(b))

RECURSIVE TupleLess(_, _)
\* Python's a < b on tuples of strings
TupleLess(a, b) ==
    IF a = <<>> THEN b # <<>>
    ELSE IF b = <<>> THEN FALSE
    ELSE IF a[1] # b[1] THEN StrLess(a[1], b[1])
    ELSE TupleLess(Tail(a), Tail(b))

\* t[:3]
First3(t) == SubSeq(t, 1, IF Len(t) < 3 THEN Len(t) ELSE 3)

\* re.sub(r"[^0-9]", "", s)
OnlyDigits(s) == SelectSeq(s, IsDigit)

RECURSIVE ToInt(_)
\* int(s) for a non-empty string of digits
ToInt(s) == IF Len(s) = 1 THEN s[1] - Ch0
            ELSE 10 * ToInt(SubSeq(s, 1, Len(s) - 1)) + (s[Len(s)] - Ch0)

\* the comparison of the suffixes, lines 105-112
SuffixNewer(current_tuple, other_tuple) ==
    IF current_tuple[4][1] # other_tuple[4][1]
    THEN other_tuple[4][1] > current_tuple[4][1]
    ELSE IF OnlyDigits(current_tuple[4]) = <<>> \/ OnlyDigits(other_tuple[4]) = <<>>
         THEN "ValueError"
         ELSE ToInt(OnlyDigits(other_tuple[4])) > ToInt(OnlyDigits(current_tuple[4]))

\* _is_new_version(current, other); tuples are 1-based here, so t[3] is t[4]
IsNewVersion(cur, oth) ==
    LET current_tuple == VersionTuple(cur)
        other_tuple == VersionTuple(oth)
    IN  IF TupleLess(First3(current_tuple), First3(other_tuple)) THEN TRUE
        ELSE IF TupleLess(First3(other_tuple), First3(current_tuple)) THEN FALSE
        ELSE IF Len(other_tuple) = 3 /\ Len(current_tuple) = 3 THEN FALSE
        ELSE IF Len(other_tuple) # Len(current_tuple)
             THEN Len(other_tuple) < Len(current_tuple)
        ELSE SuffixNewer(current_tuple, other_tuple)

-----------------------------------------------------------------------------
(* Versions given to _is_new_version: major.minor.patch, alone or followed *)
(* by "-alpha.N" / "-beta.N" (the form of the spec) or "-alphaN" / "-betaN" *)

NoSuffix == [word |-> <<>>, num |-> 0, dotted |-> FALSE]

Minors == {3} \cup (9..MaxMinor)

SuffixNums == (1..MaxSuffixNum) \cup {10}

Suffixes ==
    {[word |-> w, num |-> n, dotted |-> TRUE] : w \in {WordAlpha, WordBeta}, n \in SuffixNums}
    \cup {[word |-> w, num |-> n, dotted |-> FALSE] :
            w \in {WordAlpha, WordBeta}, n \in 1..MaxSuffixNum}

Versions ==
    [major : 0..MaxMajor, minor : Minors, patch : 0..MaxPatch,
     suffix : {NoSuffix} \cup Suffixes]

\* the version string, e.g. "0.3.0" or "0.3.0-beta.1"
VersionString(v) ==
    Digits(v.major) \o <<ChDot>> \o Digits(v.minor) \o <<ChDot>> \o Digits(v.patch)
    \o (IF v.suffix = NoSuffix THEN <<>>
        ELSE <<ChDash>> \o v.suffix.word
             \o (IF v.suffix.dotted THEN <<ChDot>> ELSE <<>>) \o Digits(v.suffix.num))

-----------------------------------------------------------------------------
(* The portal's Response signal and the scraping of the uri in got_signal  *)
(*                                                                         *)
(* A text is a sequence of pieces. str(message) of a Response is the code, *)
(* "{", the entries of the results map and "}"; an entry that holds a      *)
(* string is printed as  key [Variant(QString): "value"]  .                *)

Phases == {1, 2}

Tokens == {"normcap_aaaaaaaa", "normcap_bbbbbbbb"}

\* a request path without the token: the same for every request
ObjectPathShared(tok) == <<"/org/freedesktop/portal/desktop/request", "base">>

\* object_path = f"/org/freedesktop/portal/desktop/request/{base}/{token}"
ObjectPath(tok) == <<"/org/freedesktop/portal/desktop/request", "base", tok>>

UriX == <<"file://", "/tmp/x.png">>
UriY == <<"file://", "/tmp/y.png">>

QStringOpen == "[Variant(QString): \""
QStringClose == "\"]"
MapClose == "}"

UriEntry(u) == [key |-> "uri", sig |-> "QString", value |-> u]
NumberEntry == [key |-> "version", sig |-> "uint", value |-> <<"1">>]

\* the results maps a Response carries
Payloads == {<<>>, <<UriEntry(UriX)>>, <<UriEntry(UriY)>>, <<NumberEntry, UriEntry(UriX)>>,
             <<NumberEntry>>}

StrEntry(e) ==
    IF e.sig = "QString"
    THEN <<e.key, QStringOpen>> \o e.value \o <<QStringClose>>
    ELSE <<e.key, "[Variant(uint): ">> \o e.value \o <<"]">>

RECURSIVE StrEntries(_)
StrEntries(es) == IF es = <<>> THEN <<>> ELSE StrEntry(Head(es)) \o StrEntries(Tail(es))

\* str(message)
StrMessage(m) == <<"code", "{">> \o StrEntries(m.payload) \o <<MapClose>>

\* index of the first piece of text at or after i where the marker (a sequence of
\* pieces) starts, 0 if there is none
RECURSIVE Find(_, _, _)
Find(text, marker, i) ==
    IF i + Len(marker) - 1 > Len(text) THEN 0
    ELSE IF SubSeq(text, i, i + Len(marker) - 1) = marker THEN i
    ELSE Find(text, marker, i + 1)

\* text.split(marker)[1]: what follows the first marker, up to the next one
\* (an IndexError when the text does not hold the marker: see ParseFails)
SplitSecond(text, marker) ==
    LET i == Find(text, marker, 1)
        rest == SubSeq(text, i + Len(marker), Len(text))
        j == Find(rest, marker, 1)
    IN  IF j = 0 THEN rest ELSE SubSeq(rest, 1, j - 1)

\* text.split(marker)[0]: what precedes the first marker, all of it if none
SplitFirst(text, marker) ==
    LET i == Find(text, marker, 1)
    IN  IF i = 0 THEN text ELSE SubSeq(text, 1, i - 1)

\* line 126 raises IndexError: str(message) holds no '[Variant(QString): "'
ParseFails(m) == Find(StrMessage(m), <<QStringOpen>>, 1) = 0

\* a scraping that takes piece [0] of the first split instead of piece [1]
ParseUriWrongPiece(m) ==
    SplitFirst(SplitFirst(StrMessage(m), <<QStringOpen>>), <<QStringClose, MapClose>>)

\* lines 126-127: uri = str(message).split('[Variant(QString): "')[1]
\*                uri = uri.split('"]}')[0]
ParseUri(m) ==
    SplitFirst(SplitSecond(StrMessage(m), <<QStringOpen>>), <<QStringClose, MapClose>>)

\* urlparse(uri).path
UrlPath(uri) == IF uri # <<>> /\ Head(uri) = "file://" THEN Tail(uri) ELSE uri

\* split_full_desktop_to_screens(QtGui.QImage(path)): one image per screen
SplitFullDesktopToScreens(path) == [s \in 1..NumScreens |-> [screen |-> s, file |-> path]]

-----------------------------------------------------------------------------
(* Signals on_result / on_exception and the closures of                    *)
(* _synchronized_capture connected to them                                 *)

OnResult(uri) == [signal |-> "on_result", arg |-> uri]
OnException(error) == [signal |-> "on_exception", arg |-> <<error>>]

IsResult(e) == e.signal = "on_result"
IsException(e) == e.signal = "on_exception"

\* the arguments of a sequence of emissions: texts, or the names of the errors
RECURSIVE Args(_)
Args(es) ==
    IF es = <<>> THEN <<>>
    ELSE <<IF IsResult(Head(es)) THEN Head(es).arg ELSE Head(es).arg[1]>> \o Args(Tail(es))

\* portal p emits es, in this order; each emission runs the connected closure
\* (_signal_triggered: result.append(uri); loop.exit() /
\*  _exception_triggered: exceptions.append(e); loop.exit())
Emit(p, es) ==
    /\ emitted' = [emitted EXCEPT ![p] = @ \o es]
    /\ IF connected[p] /\ es # <<>>
       THEN /\ result' = [result EXCEPT ![p] = @ \o Args(SelectSeq(es, IsResult))]
            /\ exceptions' = [exceptions EXCEPT ![p] = @ \o Args(SelectSeq(es, IsException))]
            /\ loopExit' = [loopExit EXCEPT ![p] = TRUE]
       ELSE UNCHANGED <<result, exceptions, loopExit>>

InitCapture ==
    /\ pc = "start" /\ captureResult = <<>> /\ raisedError = "none"
    /\ windowVisible = FALSE /\ windowActive = FALSE
    /\ created = [p \in Phases |-> FALSE]
    /\ interactive = [p \in Phases |-> FALSE]
    /\ timer = [p \in Phases |-> "inactive"]
    /\ grabbed = [p \in Phases |-> FALSE]
    /\ token = [p \in Phases |-> "none"]
    /\ listening = [p \in Phases |-> <<>>]
    /\ sent = [p \in Phases |-> <<>>]
    /\ ack = [p \in Phases |-> "none"]
    /\ emitted = [p \in Phases |-> <<>>]
    /\ slotFailed = [p \in Phases |-> FALSE]
    /\ delivered = [p \in Phases |-> <<>>]
    /\ connected = [p \in Phases |-> FALSE]
    /\ result = [p \in Phases |-> <<>>]
    /\ exceptions = [p \in Phases |-> <<>>]
    /\ loopExit = [p \in Phases |-> FALSE]
    /\ responded = [p \in Phases |-> FALSE]
    /\ bus = {}

\* no update check is under way
InitUpdate ==
    /\ packaged = FALSE /\ data = <<>> /\ newest = <<>>
    /\ events = <<>> /\ choice = 0 /\ upc = "idle"

Init ==
    /\ InitCapture
    /\ InitUpdate
    /\ flatpak \in BOOLEAN
    /\ current = [major |-> 0, minor |-> 3, patch |-> 0, suffix |-> NoSuffix]
    /\ other = current /\ isNew = "none" /\ vpc = "idle"

-----------------------------------------------------------------------------
(* _synchronized_capture, up to loop.exec() (lines 145-165)                *)

\* a capture() that sets up the silent and the interactive client at once
BeginBothPhases(p, inter) ==
    /\ created' = [q \in Phases |-> TRUE]
    /\ interactive' = [q \in Phases |-> q = 2]
    /\ timer' = [q \in Phases |-> "active"]
    /\ connected' = [q \in Phases |-> TRUE]

\* portal = OrgFreedesktopPortalScreenshot(interactive, TIMEOUT_SECONDS); the closures
\* are connected, the timer is started and grab_full_desktop is scheduled
SynchronizedCaptureBegin(p, inter) ==
    /\ created' = [created EXCEPT ![p] = TRUE]
    /\ interactive' = [interactive EXCEPT ![p] = inter]
    /\ timer' = [timer EXCEPT ![p] = "active"]
    /\ connected' = [connected EXCEPT ![p] = TRUE]

\* loop.exec() of phase p is running: it returns once loop.exit() was called
LoopRunning(p) ==
    /\ \/ p = 1 /\ pc = "loop1"
       \/ p = 2 /\ pc = "loop2"
    /\ ~loopExit[p]

\* grab_full_desktop of some portal has registered its listener and is in the
\* blocking call of line 87
InGrab == \E q \in Phases : listening[q] # <<>> /\ ~grabbed[q]

\* events are dispatched by a running loop.exec() and by processEvents() of the
\* wait for the notice (line 233), one handler at a time
Dispatching == ~InGrab /\ (pc = "focus" \/ LoopRunning(1) \/ LoopRunning(2))

-----------------------------------------------------------------------------
(* OrgFreedesktopPortalScreenshot                                          *)

\* a call that passes a token of its own
HandleTokenOther(tok) == "normcap_cccccccc"

\* "handle_token": token (line 88)
HandleToken(tok) == tok

\* the options of the Screenshot call always say interactive: False (line 88)
ScreenshotCall(p, tok) ==
    [method |-> "Screenshot", parent_window |-> "",
     options |-> [interactive |-> FALSE, handle_token |-> HandleToken(tok)]]

\* a grab_full_desktop that does not report a missing object path
GrabEmissionsSilent(reply) == <<>>

\* lines 92-101
GrabEmissions(reply) ==
    IF reply = "valid" THEN <<>> ELSE <<OnException("ScreenshotRequestError")>>

\* grab_full_desktop, lines 68-77, run by the event loop (QTimer.singleShot(0, ...)):
\* the token is drawn and the Response listener is connected on its object path.
\* The random token is taken to differ from the tokens of earlier requests.
GrabListen(p) ==
    /\ created[p] /\ ~grabbed[p] /\ listening[p] = <<>>
    /\ Dispatching
    /\ \E tok \in Tokens \ {token[q] : q \in Phases} :
        /\ token' = [token EXCEPT ![p] = tok]
        /\ listening' = [listening EXCEPT ![p] = ObjectPath(tok)]
    /\ UNCHANGED <<captureVars, created, interactive, timer, grabbed, sent, ack, emitted,
                   slotFailed, delivered, closureVars, busVars, versionVars>>

\* grab_full_desktop, lines 79-101: the call is sent and blocks until the portal's
\* reply, an object path ("valid") or anything else
GrabCall(p) ==
    /\ created[p] /\ ~grabbed[p] /\ listening[p] # <<>>
    /\ \E reply \in {"valid", "invalid"} :
        /\ sent' = [sent EXCEPT ![p] = Append(@, ScreenshotCall(p, token[p]))]
        /\ ack' = [ack EXCEPT ![p] = reply]
        /\ Emit(p, GrabEmissions(reply))
    /\ grabbed' = [grabbed EXCEPT ![p] = TRUE]
    /\ UNCHANGED <<captureVars, created, interactive, timer, token, listening, slotFailed,
                   delivered, connected, busVars, versionVars>>

\* grab_full_desktop: the handler is at the bus, in its blocking call, between its
\* two halves; nothing else of the client runs in between
GrabFullDesktop(p) == GrabListen(p) \/ GrabCall(p)

\* _timeout_triggered: the single-shot timer fires (after the zero timer that runs
\* grab_full_desktop, which was started after it with a shorter interval)
TimeoutTriggered(p) ==
    /\ created[p] /\ grabbed[p]
    /\ timer[p] = "active"
    /\ Dispatching
    /\ timer' = [timer EXCEPT ![p] = "inactive"]
    /\ Emit(p, <<OnException("TimeoutError")>>)
    /\ UNCHANGED <<captureVars, created, interactive, grabbed, token, listening, sent,
                   ack, slotFailed, delivered, connected, busVars, versionVars>>

\* the portal emits the Response of a request it acknowledged, once, on the path
\* built from the handle_token of the call
PortalResponds(p) ==
    /\ ack[p] = "valid" /\ ~responded[p]
    /\ \E code \in 0..MaxCode, payload \in Payloads :
        bus' = bus \cup {[path |-> ObjectPath(sent[p][1].options.handle_token),
                          code |-> code, payload |-> payload, request |-> p]}
    /\ responded' = [responded EXCEPT ![p] = TRUE]
    /\ UNCHANGED <<captureVars, portalVars, closureVars, versionVars>>

\* lines 119-141: the emissions of got_signal, in order
GotSignalEmissions(m) ==
    (IF m.code # 0 THEN <<OnException("ScreenshotResponseError")>> ELSE <<>>)
    \o (IF ParseFails(m) THEN <<>> ELSE <<OnResult(ParseUri(m))>>)

\* got_signal: a Response is delivered to the listener of portal p. Nothing in the
\* code disconnects the listener of line 77 or deletes the portal object (the raised
\* exception keeps the frame of _synchronized_capture, and so the portal, alive), so
\* a Response can also reach the portal of Phase 1 after its loop returned.
GotSignal(p) ==
    /\ created[p]
    /\ Dispatching
    /\ \E m \in bus :
        /\ listening[p] = m.path
        /\ bus' = bus \ {m}
        /\ slotFailed' = [slotFailed EXCEPT ![p] = @ \/ ParseFails(m)]
        /\ delivered' = [delivered EXCEPT ![p] =
                            Append(@, [path |-> m.path, code |-> m.code, payload |-> m.payload,
                                       request |-> m.request, at |-> pc])]
        /\ Emit(p, GotSignalEmissions(m))
    /\ timer' = [timer EXCEPT ![p] = "inactive"]
    /\ UNCHANGED <<captureVars, created, interactive, grabbed, token, listening, sent,
                   ack, connected, responded, versionVars>>

-----------------------------------------------------------------------------
(* _synchronized_capture after loop.exec() (lines 167-175) and capture()   *)

\* lines 170-175: the first exception is raised, else the images of result[0]
Outcome(p) ==
    IF exceptions[p] # <<>> THEN [raised |-> exceptions[p][1], images |-> <<>>]
    ELSE IF result[p] = <<>> THEN [raised |-> "IndexError", images |-> <<>>]
    ELSE [raised |-> "none", images |-> SplitFullDesktopToScreens(UrlPath(result[p][1]))]

\* a capture() that catches every exception
CaughtAlways(error) == TRUE

\* except TimeoutError (lines 217 and 239)
Caught(error) == error = "TimeoutError"

\* a capture() that retries whatever the environment
FlatpakIdIgnored == TRUE

\* os.getenv("FLATPAK_ID") (line 222)
FlatpakIdSet == flatpak

\* capture() is called: Phase 1, interactive=False (lines 213-216)
CaptureBegin ==
    /\ pc = "start"
    /\ SynchronizedCaptureBegin(1, FALSE)
    /\ pc' = "loop1"
    /\ UNCHANGED <<flatpak, captureResult, raisedError, windowVisible, windowActive,
                   grabbed, token, listening, sent, ack, emitted, slotFailed,
                   delivered, result, exceptions, loopExit, busVars, versionVars>>

\* loop.exec() of Phase 1 returns; lines 167-175 and 217-231
Phase1Returns ==
    /\ pc = "loop1" /\ loopExit[1]
    /\ connected' = [connected EXCEPT ![1] = FALSE]
    /\ LET o == Outcome(1)
       IN  IF o.raised = "none"
           THEN /\ pc' = "returned"
                /\ captureResult' = o.images
                /\ UNCHANGED <<raisedError, windowVisible>>
           ELSE IF ~Caught(o.raised)
           THEN /\ pc' = "raised"
                /\ raisedError' = o.raised
                /\ UNCHANGED <<captureResult, windowVisible>>
           ELSE IF ~FlatpakIdSet
           THEN /\ pc' = "returned"
                /\ captureResult' = <<>>
                /\ UNCHANGED <<raisedError, windowVisible>>
           ELSE /\ pc' = "focus"
                /\ windowVisible' = TRUE
                /\ UNCHANGED <<raisedError, captureResult>>
    /\ UNCHANGED <<flatpak, windowActive, portalVars, result, exceptions, loopExit,
                   busVars, versionVars>>

\* the window manager gives the notice the focus
WindowActivated ==
    /\ pc = "focus" /\ windowVisible /\ ~windowActive
    /\ windowActive' = TRUE
    /\ UNCHANGED <<pc, flatpak, captureResult, raisedError, windowVisible, portalVars,
                   closureVars, busVars, versionVars>>

\* the wait of lines 232-234 ends; Phase 2, interactive=True (lines 235-237)
Phase2Begin ==
    /\ pc = "focus" /\ windowActive
    /\ SynchronizedCaptureBegin(2, TRUE)
    /\ pc' = "loop2"
    /\ UNCHANGED <<flatpak, captureResult, raisedError, windowVisible, windowActive,
                   grabbed, token, listening, sent, ack, emitted, slotFailed,
                   delivered, result, exceptions, loopExit, busVars, versionVars>>

\* loop.exec() of Phase 2 returns; lines 167-175 and 237-242
Phase2Returns ==
    /\ pc = "loop2" /\ loopExit[2]
    /\ connected' = [connected EXCEPT ![2] = FALSE]
    /\ LET o == Outcome(2)
       IN  IF o.raised = "none"
           THEN /\ pc' = "returned"
                /\ captureResult' = o.images
                /\ windowVisible' = FALSE
                /\ windowActive' = FALSE
                /\ UNCHANGED raisedError
           ELSE IF ~Caught(o.raised)
           THEN /\ pc' = "raised"
                /\ raisedError' = o.raised
                /\ UNCHANGED <<captureResult, windowVisible, windowActive>>
           ELSE /\ pc' = "returned"
                /\ captureResult' = <<>>
                /\ UNCHANGED <<raisedError, windowVisible, windowActive>>
    /\ UNCHANGED <<flatpak, portalVars, result, exceptions, loopExit, busVars, versionVars>>

Next ==
    \/ CaptureBegin
    \/ \E p \in Phases : GrabFullDesktop(p)
    \/ \E p \in Phases : TimeoutTriggered(p)
    \/ \E p \in Phases : PortalResponds(p)
    \/ \E p \in Phases : GotSignal(p)
    \/ Phase1Returns
    \/ WindowActivated
    \/ Phase2Begin
    \/ Phase2Returns

Spec == Init /\ [][Next]_vars

\* the event loop runs what is pending: the scheduled grab_full_desktop, an armed
\* timer, a delivered signal; capture() goes on when loop.exec() returns. Neither the
\* portal nor the window manager owes anything.
Fairness ==
    /\ \A p \in Phases : WF_vars(GrabFullDesktop(p))
    /\ \A p \in Phases : WF_vars(TimeoutTriggered(p))
    /\ \A p \in Phases : WF_vars(GotSignal(p))
    /\ WF_vars(Phase1Returns)
    /\ WF_vars(Phase2Begin)
    /\ WF_vars(Phase2Returns)

FairSpec == Spec /\ Fairness

-----------------------------------------------------------------------------
(* The update check applies _is_new_version to the installed version and   *)
(* the version found in the feed (update_check.py line 54).                *)

VInit ==
    /\ InitCapture
    /\ InitUpdate
    /\ flatpak = FALSE
    /\ current \in Versions
    /\ other = current
    /\ isNew = "none"
    /\ vpc = "input"

\* self._is_new_version(current=__version__, other=newest_version)
CheckVersion ==
    /\ vpc = "input"
    /\ \E o \in Versions :
        /\ other' = o
        /\ isNew' = IsNewVersion(VersionString(current), VersionString(o))
    /\ vpc' = "done"
    /\ UNCHANGED <<current, updateVars, captureVars, portalVars, closureVars, busVars>>

VNext == CheckVersion

VersionSpec == VInit /\ [][VNext]_vars

-----------------------------------------------------------------------------
(* Properties                                                              *)

RequestError == OnException("ScreenshotRequestError")
ResponseError == OnException("ScreenshotResponseError")
TimedOut == OnException("TimeoutError")

\* the first terminal emission of the request of phase p is e
FirstIs(p, e) == emitted[p] # <<>> /\ emitted[p][1] = e

\* the request of phase p was sent and has made no terminal emission
Outstanding(p) == sent[p] # <<>> /\ emitted[p] = <<>>

\* the uri a results map holds under the key "uri"
HoldsUri(payload, u) == \E i \in 1..Len(payload) : payload[i] = UriEntry(u)

\* the file a uri names
FileOf(u) == IF u = UriX THEN <<"/tmp/x.png">> ELSE <<"/tmp/y.png">>

\* C1: every request makes exactly one terminal emission over on_result and
\* on_exception: never two, and one when its event loop has been told to exit.
C1_ExactlyOneEmission ==
    \A p \in Phases :
        /\ Len(emitted[p]) <= 1
        /\ loopExit[p] => Len(emitted[p]) = 1

\* C2: once TimeoutError has been emitted for a request, a Response delivered
\* afterwards causes no further emission and got_signal does not fail.
C2_LateResponseIgnored ==
    \A p \in Phases :
        FirstIs(p, TimedOut) => /\ emitted[p] = <<TimedOut>>
                                /\ ~slotFailed[p]

LastPhase == IF created[2] THEN 2 ELSE 1

C5_CallCarriesInteractive ==
    \A p \in Phases : \A i \in 1..Len(sent[p]) :
        sent[p][i].options.interactive = interactive[p]

\* C6: at most one request is outstanding, and the Phase 2 request is sent only
\* after Phase 1 made its terminal emission and its event loop has exited.
C6_OneOutstanding ==
    /\ Cardinality({p \in Phases : Outstanding(p)}) <= 1
    /\ sent[2] # <<>> => emitted[1] # <<>> /\ loopExit[1] /\ ~connected[1]

C6_Witness_Phase2Outstanding == Outstanding(2) /\ sent[1] # <<>>

\* C7: the event loop of every request eventually exits, whatever the portal does.
C7_EveryRequestResolves == \A p \in Phases : created[p] ~> loopExit[p]

\* C8: grab_full_desktop emits ScreenshotRequestError, and nothing else, when the
\* reply is no object path, and emits nothing when it is one.
C8_GrabReportsMissingPath ==
    [][\A p \in Phases :
        (~grabbed[p] /\ grabbed'[p]) =>
            emitted'[p] = emitted[p] \o (IF ack'[p] = "valid" THEN <<>> ELSE <<RequestError>>)]_vars

C8_Witness_Rejected ==
    \E p \in Phases : grabbed[p] /\ ack[p] = "invalid" /\ emitted[p] = <<RequestError>>

\* C9: a Response with code 0 that reaches Phase 1 before its timer fired makes the
\* client emit on_result with the uri of the payload, and capture() returns the
\* images of that uri; Phase 2 is not started and the notice is not shown.
C9_SuccessInPhase1 ==
    \A u \in {UriX, UriY} :
        ( /\ delivered[1] # <<>>
          /\ delivered[1][1].code = 0
          /\ HoldsUri(delivered[1][1].payload, u)
          /\ ~FirstIs(1, TimedOut) ) =>
            /\ emitted[1] = <<OnResult(u)>>
            /\ pc \in {"loop1", "returned"}
            /\ pc = "returned" =>
                captureResult = [i \in 1..NumScreens |-> [screen |-> i, file |-> FileOf(u)]]
            /\ raisedError = "none"
            /\ ~created[2] /\ ~windowVisible

C9_Witness_Returned ==
    /\ pc = "returned"
    /\ delivered[1] # <<>> /\ delivered[1][1].code = 0
    /\ HoldsUri(delivered[1][1].payload, UriY)
    /\ Len(captureResult) = NumScreens

\* major.minor.patch of a is numerically below that of b
CoreLess(a, b) ==
    \/ a.major < b.major
    \/ a.major = b.major /\ a.minor < b.minor
    \/ a.major = b.major /\ a.minor = b.minor /\ a.patch < b.patch

\* C10: _is_new_version compares major.minor.patch numerically; with equal
\* components and no suffix on either side it is false; with a suffix on exactly
\* one side it is true iff `other` is the side without.
C10_CoreNumeric ==
    vpc = "done" =>
        /\ CoreLess(current, other) => isNew = TRUE
        /\ CoreLess(other, current) => isNew = FALSE
        /\ (~CoreLess(current, other) /\ ~CoreLess(other, current)) =>
            /\ (current.suffix = NoSuffix /\ other.suffix = NoSuffix) => isNew = FALSE
            /\ (current.suffix # NoSuffix /\ other.suffix = NoSuffix) => isNew = TRUE
            /\ (current.suffix = NoSuffix /\ other.suffix # NoSuffix) => isNew = FALSE

C10_Witness_NineTen ==
    /\ vpc = "done" /\ isNew = TRUE
    /\ current.minor = 9 /\ other.minor = MaxMinor /\ current.major = other.major
    /\ current.suffix # NoSuffix /\ other.suffix = NoSuffix

\* the two versions have the same major.minor.patch and both have a suffix
SameCoreBothSuffixed ==
    /\ ~CoreLess(current, other) /\ ~CoreLess(other, current)
    /\ current.suffix # NoSuffix /\ other.suffix # NoSuffix

\* C11: with the same major.minor.patch and the same suffix word (written the same
\* way), _is_new_version is true iff the suffix number of `other` is the greater.
C11_SuffixNumbersNumeric ==
    ( /\ vpc = "done"
      /\ SameCoreBothSuffixed
      /\ current.suffix.word = other.suffix.word
      /\ current.suffix.dotted = other.suffix.dotted ) =>
        isNew = (other.suffix.num > current.suffix.num)

\* C12: with the same major.minor.patch and suffixes whose first letters differ,
\* _is_new_version is true iff the first letter of the suffix of `other` is the
\* later one, whatever the numbers.
C12_FirstLetterDecides ==
    ( /\ vpc = "done"
      /\ SameCoreBothSuffixed
      /\ current.suffix.dotted = other.suffix.dotted
      /\ current.suffix.word[1] # other.suffix.word[1] ) =>
        isNew = (other.suffix.word[1] > current.suffix.word[1])


\* C13: once a request has made its terminal emission, by a response, a rejection
\* or a timeout, no Response listener of that request is connected any more.
C13_ListenerUnregistered ==
    \A p \in Phases : emitted[p] # <<>> => listening[p] = <<>>

\* the images split_full_desktop_to_screens makes of the file of uri u
ImagesOf(u) == [i \in 1..NumScreens |-> [screen |-> i, file |-> FileOf(u)]]

\* what Phase 2 reports comes from the request of Phase 2 alone
OwnOutcome ==
    /\ \A i \in 1..Len(delivered[2]) : delivered[2][i].request = 2
    /\ (pc = "returned" /\ created[2] /\ captureResult # <<>>) =>
            /\ delivered[2] # <<>>
            /\ \E u \in {UriX, UriY} :
                /\ HoldsUri(delivered[2][1].payload, u)
                /\ captureResult = ImagesOf(u)
    /\ (pc = "returned" /\ created[2] /\ captureResult = <<>>) => FirstIs(2, TimedOut)

\* C14: a Response of the timed-out Phase 1 request that arrives while Phase 2 awaits
\* its response reaches only the Phase 1 listener and changes nothing of Phase 2: the
\* images or the empty result capture() reports for Phase 2 come from the response or
\* the timeout of the Phase 2 request alone.
C14_LateResponseLeavesPhase2 ==
    [][ /\ OwnOutcome'
        /\ (pc = "loop2" /\ delivered'[1] # delivered[1]) =>
                /\ pc' = pc
                /\ UNCHANGED <<captureResult, raisedError, closureVars>>
                /\ emitted'[2] = emitted[2]
                /\ timer'[2] = timer[2]
                /\ delivered'[2] = delivered[2] ]_vars

C14_Witness_LateThenOwn ==
    /\ pc = "returned" /\ created[2]
    /\ delivered[1] # <<>>
    /\ delivered[1][1].at = "loop2"
    /\ delivered[1][1].code = 0
    /\ HoldsUri(delivered[1][1].payload, UriX)
    /\ captureResult = ImagesOf(UriY)

\* C15: the listener is connected before the Screenshot call is sent, on the object
\* path of the token the call passes as handle_token, so every Response of the portal
\* finds the listener of its request.
C15_ListenerBeforeCall ==
    [][ /\ \A p \in Phases :
            /\ sent'[p] # <<>> =>
                    listening'[p] = ObjectPath(sent'[p][1].options.handle_token)
            /\ sent'[p] # sent[p] => (listening[p] # <<>> /\ listening'[p] = listening[p])
        /\ \A m \in bus' : listening'[m.request] = m.path ]_vars

C15_Witness_Delivered ==
    /\ delivered[2] # <<>>
    /\ delivered[2][1].path = ObjectPath(sent[2][1].options.handle_token)

\* C16: the wait for the notice to become the active window ends, also when the
\* window never becomes active.
C16_FocusWaitEnds == (pc = "focus") ~> (pc # "focus")

\* C17: the notice is shown only after a Phase 1 timeout in the sandbox, the Phase 2
\* request is sent only after the notice became the active window, and the notice is
\* hidden whenever capture() has returned or raised.
C17_NoticeOnlyDuringRetry ==
    /\ windowVisible => (flatpak /\ FirstIs(1, TimedOut))
    /\ (sent[2] # <<>> /\ windowVisible) => windowActive
    /\ pc \in {"returned", "raised"} => ~windowVisible

\* C18: a request that was sent and has made no terminal emission has its timeout
\* timer armed.
C18_TimerArmedWhileOutstanding ==
    \A p \in Phases : Outstanding(p) => timer[p] = "active"


-----------------------------------------------------------------------------
(* UpdateChecker._parse_version and _show_update_message                   *)
(*                                                                         *)
(* The downloaded text is the sequence of the places where a version may   *)
(* stand: kind "atom" is  /releases/tag/v<text>"  and kind "json" is       *)
(* "version": "<text>"  ; <text> is a string of character codes.           *)

\* versions that stand in a feed or are installed
FeedVersions ==
    {v \in Versions :
        /\ v.major = 0 /\ v.patch = 0 /\ v.minor \in {3, MaxMinor}
        /\ v.suffix \in {NoSuffix, [word |-> WordBeta, num |-> 1, dotted |-> FALSE]}}

FeedEntries == [kind : {"atom", "json"}, text : {VersionString(v) : v \in FeedVersions}]

RECURSIVE SeqsUpTo(_, _)
\* the sequences over S of length at most n
SeqsUpTo(S, n) ==
    IF n = 0 THEN {<<>>}
    ELSE LET shorter == SeqsUpTo(S, n - 1)
         IN  shorter \cup {Append(q, e) : q \in {r \in shorter : Len(r) = n - 1}, e \in S}

\* a checker that reads the feed of the other installation kind
FeedKindSwapped(pk) == IF pk THEN "json" ELSE "atom"

\* the pattern chosen at lines 38-41
FeedKind(pk) == IF pk THEN "atom" ELSE "json"

\* t is \d+\.\d+\.\d+ and nothing else, as the group of both patterns followed by
\* the closing quote demands
IsCoreVersion(t) ==
    \E i, j \in 1..Len(t) :
        /\ 1 < i /\ i + 1 < j /\ j < Len(t)
        /\ t[i] = ChDot /\ t[j] = ChDot
        /\ \A k \in (1..Len(t)) \ {i, j} : IsDigit(t[k])

\* the entries of the text that the pattern matches
Matching(text, pk) ==
    {i \in 1..Len(text) : text[i].kind = FeedKind(pk) /\ IsCoreVersion(text[i].text)}

\* match = re.search(regex, text); match[1] of the leftmost match, <<>> for no match
SearchVersion(text, pk) ==
    LET hits == Matching(text, pk)
    IN  IF hits = {} THEN <<>>
        ELSE text[CHOOSE i \in hits : \A k \in hits : i <= k].text

\* update_url of _show_update_message
UpdateUrl(pk) == IF pk THEN "URLS.releases" ELSE "URLS.changelog"

\* one entry of the log: a signal with its argument, or the dialog
Event(what, version, url) == [what |-> what, version |-> version, url |-> url]

UInit ==
    /\ InitCapture
    /\ flatpak = FALSE
    /\ current \in FeedVersions
    /\ other = current /\ isNew = "none" /\ vpc = "idle"
    /\ packaged \in BOOLEAN
    /\ data \in SeqsUpTo(FeedEntries, MaxFeed)
    /\ newest = <<>> /\ events = <<>> /\ choice = 0
    /\ upc = "download"

\* _parse_version, up to message_box.exec_() when the dialog is shown
ParseVersion ==
    /\ upc = "download"
    /\ LET found == SearchVersion(data, packaged)
           checked == <<Event("on_version_checked", found, "")>>
       IN  /\ newest' = found
           /\ IF found = <<>>
              THEN /\ events' = events
                   /\ upc' = "done"
              ELSE IF IsNewVersion(VersionString(current), found)
              THEN /\ events' = events \o checked \o <<Event("dialog", found, "")>>
                   /\ upc' = "dialog"
              ELSE /\ events' = events \o checked
                   /\ upc' = "done"
    /\ UNCHANGED <<packaged, data, choice, current, other, isNew, vpc,
                   captureVars, portalVars, closureVars, busVars>>

\* choice = self.message_box.exec_() returns and _show_update_message ends
MessageBoxReturns ==
    /\ upc = "dialog"
    /\ \E c \in {ButtonOk, ButtonCancel} :
        /\ choice' = c
        /\ events' = IF c = 1024
                     THEN Append(events, Event("on_click_get_new_version", <<>>,
                                               UpdateUrl(packaged)))
                     ELSE events
    /\ upc' = "done"
    /\ UNCHANGED <<packaged, data, newest, current, other, isNew, vpc,
                   captureVars, portalVars, closureVars, busVars>>

UNext == ParseVersion \/ MessageBoxReturns

UpdateSpec == UInit /\ [][UNext]_vars

\* the places of the log where `what` stands
Places(what) == {k \in 1..Len(events) : events[k].what = what}

\* C19: once _parse_version has dealt with a download, on_version_checked has been
\* emitted iff the text holds a version in the pattern of the installation kind (atom
\* when packaged, json otherwise), with the leftmost such version and before any
\* dialog; a dialog was shown only if _is_new_version(installed, found);
\* on_click_get_new_version was emitted only after the dialog and the choice OK, with
\* the releases URL when packaged and the changelog URL otherwise; with no version
\* found there is no signal and no dialog.
C19_UpdateSignals ==
    upc \in {"dialog", "done"} =>
        LET hits == {i \in 1..Len(data) :
                        /\ data[i].kind = (IF packaged THEN "atom" ELSE "json")
                        /\ IsCoreVersion(data[i].text)}
        IN  /\ (Places("on_version_checked") # {}) <=> (hits # {})
            /\ hits = {} => events = <<>>
            /\ hits # {} =>
                LET found == data[CHOOSE i \in hits : \A k \in hits : i <= k].text
                IN  /\ Places("on_version_checked") = {1}
                    /\ events[1].version = found
                    /\ Places("dialog") \subseteq {2}
                    /\ Places("dialog") # {} => IsNewVersion(VersionString(current), found)
                    /\ Places("on_click_get_new_version") \subseteq {3}
                    /\ Places("on_click_get_new_version") # {} =>
                            /\ Places("dialog") = {2}
                            /\ choice = ButtonOk
                            /\ events[3].url =
                                 (IF packaged THEN "URLS.releases" ELSE "URLS.changelog")

C19_Witness_ClickedPackaged ==
    /\ upc = "done" /\ packaged
    /\ Len(data) = 2 /\ data[1].kind = "json" /\ data[2].kind = "atom"
    /\ Len(events) = 3
    /\ events[3].what = "on_click_get_new_version"

====
